---- MODULE Spec2Model ----
(***************************************************************************)
(* ReduceKernel::operator() of src/kernel.hpp: one launch of the           *)
(* reduction kernel over a grid of gridDimension blocks of TBlockSize      *)
(* threads.  Every thread (lane) is a process; the threads of a block meet *)
(* at syncBlockThreads.  The reduction function is integer addition        *)
(* (op = "add") or sequence concatenation (op = "cat").                    *)
(***************************************************************************)
EXTENDS Integers, Sequences, FiniteSets, TLC

\* ------------------------------------------------------------------ bounds
\* total threads of a launch: TBlockSize * gridDimension <= MaxLanes
MaxLanes == 6
\* blocks of a launch
MaxGrid == 3
\* problem size
MaxN == 8

VARIABLES
    op,                 \* the reduction function: "add" or "cat"
    TBlockSize,         \* template parameter: threads per block
    gridDimension,      \* blocks of the grid
    n,                  \* the problem size
    source,             \* the input, a function on 0..n-1
    destination,        \* the output, one slot per block
    sdata,              \* sdata[b]: the shared array of block b
    pc,                 \* pc[<<b,t>>]: where thread t of block b stands
    it,                 \* the iterator's current index, per thread
    result,             \* the accumulator, per thread
    currentBlockSize,   \* loop variable of the tree loop, per thread
    currentBlockSizeUp, \* loop variable of the tree loop, per thread
    readCnt,            \* instrumentation: reads of each input index
    dwrites,            \* instrumentation: <<b, t, slot, k>>: k-th write of slot
    swritten,           \* instrumentation: slots of sdata[b] written so far
    flag,               \* instrumentation: accesses that must not happen
    nsync,              \* instrumentation: syncBlockThreads calls per thread
    rounds,             \* instrumentation: tree rounds per thread
    iters,              \* instrumentation: loop iterations of Level 0 per thread
    phase,              \* instrumentation: accesses of sdata[b] since its last barrier
    host                \* the launching side: pass number and what it keeps

vars == <<op, TBlockSize, gridDimension, n, source, destination, sdata, pc,
          it, result, currentBlockSize, currentBlockSizeUp, readCnt, dwrites,
          swritten, flag, nsync, rounds, iters, phase, host>>

config == <<op, TBlockSize, gridDimension, n, source>>
ghost == <<readCnt, dwrites, swritten, flag, nsync, rounds, iters>>

\* ------------------------------------------------------------------ values
\* The token that marks storage nobody has written: result before it is
\* seeded, a slot of sdata at block entry, a slot of destination at launch.
Sentinel == 0 - 9

Pow2(k) == 2 ^ k

\* what an uninitialised T holds
NoValue == IF op = "add" THEN Sentinel * Pow2(20) ELSE <<Sentinel>>

\* what a read past the end of the input may return
Garbage == IF op = "add" THEN {0 - 1, 0 - 2} ELSE {<<0 - 1>>, <<0 - 2>>}

\* v holds the sentinel, alone or combined into it
Tainted(v) ==
    IF op = "add"
        THEN v < Sentinel * Pow2(19)
        ELSE \E i \in 1..Len(v) : v[i] = Sentinel

\* the reduction function
func(a, b) == IF op = "add" THEN a + b ELSE a \o b

\* the input of the first launch
InputAt(o, i) == IF o = "add" THEN Pow2(i) ELSE <<i>>

Max(a, b) == IF a >= b THEN a ELSE b

\* ------------------------------------------------------------------ threads
Blocks == 0..(gridDimension - 1)
Threads == 0..(TBlockSize - 1)
Lanes == Blocks \X Threads

blockIndex(l) == l[1]
threadIndex(l) == l[2]
linearizedIndex(l) == blockIndex(l) * TBlockSize + threadIndex(l)

\* ------------------------------------------------------------------ iterator
\* the iterator over source: start linearizedIndex, stride
\* gridDimension * TBlockSize, end n
ItStrideOfBlock == TBlockSize
ItStride == gridDimension * TBlockSize
ItStart(l) == linearizedIndex(l)
ItPlus(i, k) == i + k * ItStride
ItEnd == n
InRange(i) == i >= 0 /\ i < n
\* *it: the element, or whatever lies past the end
Deref(i, g) == IF InRange(i) THEN source[i] ELSE g
\* the values a read at i may return
Outcomes(i) == IF InRange(i) THEN {NoValue} ELSE Garbage
CountRead(cnt, S) == [i \in DOMAIN cnt |-> IF i \in S THEN cnt[i] + 1 ELSE cnt[i]]

\* ------------------------------------------------------------------ guards
SeedGuard(l) == threadIndex(l) < n
PublishGuardAlways(l) == TRUE
PublishGuard(l) == threadIndex(l) < n
\* syncBlockThreads after the publish is called by every thread
PublishSyncsIfActive(l) == threadIndex(l) < n
PublishSyncs(l) == TRUE
\* lines 148-156, for a thread l and a half width up
condAtNoLowerHalf(l, up) ==
    /\ threadIndex(l) + up < TBlockSize
    /\ blockIndex(l) * TBlockSize + threadIndex(l) + up < n
    /\ threadIndex(l) < n
condAtNoPartnerBound(l, up) ==
    /\ threadIndex(l) < up
    /\ threadIndex(l) + up < TBlockSize
    /\ threadIndex(l) < n
condAt(l, up) ==
    /\ threadIndex(l) < up
    /\ threadIndex(l) + up < TBlockSize
    /\ blockIndex(l) * TBlockSize + threadIndex(l) + up < n
    /\ threadIndex(l) < n
cond(l) == condAt(l, currentBlockSizeUp[l])
\* syncBlockThreads of a round (line 163) is outside the if (cond)
RoundSyncsIfCond(l) == cond(l)
RoundSyncs(l) == TRUE
EmitGuardAnyLane(l) == threadIndex(l) < n
EmitGuard(l) == threadIndex(l) = 0 /\ threadIndex(l) < n

\* the header of the tree loop
ForInit == TBlockSize
ForUp(cbs) == (cbs + 1) \div 2
ForTestStopsEarly(cbs) == cbs > 2
ForTest(cbs) == cbs > 1
ForNext(cbs) == cbs \div 2

\* sdata[b][i], with the accesses that must not happen noted
InScratch(i) == i >= 0 /\ i < TBlockSize
ScratchRead(b, i) == IF InScratch(i) THEN sdata[b][i] ELSE NoValue
ScratchBad(b, S) == \E i \in S : ~InScratch(i)
ScratchUninit(b, S) == \E i \in S : i \notin swritten[b]
\* a slot whose position in the grid, blockIndex * TBlockSize + i, is >= n
ScratchBeyond(b, S) == \E i \in S : b * TBlockSize + i >= n
\* one access of sdata: by thread t, of slot idx, in the round of half width up
Access(l, i, k) ==
    [t |-> threadIndex(l), idx |-> i, kind |-> k, up |-> currentBlockSizeUp[l]]

\* lines 121-122: the body of the 4x unrolled loop
UnrolledSkipsThird(r, e0, e1, e2, e3) == func(func(r, func(e0, e1)), e3)
Unrolled(r, e0, e1, e2, e3) == func(func(func(r, func(e0, e1)), e2), e3)

\* ------------------------------------------------------------------ launch
\* the state of a launch before any thread has run
Fresh(o, T, G, nn, src, h) ==
    [op |-> o, TBlockSize |-> T, gridDimension |-> G, n |-> nn, source |-> src,
     destination |-> [b \in 0..(G - 1) |->
         IF o = "add" THEN Sentinel * Pow2(20) ELSE <<Sentinel>>],
     sdata |-> [b \in 0..(G - 1) |-> [i \in 0..(T - 1) |->
         IF o = "add" THEN Sentinel * Pow2(20) ELSE <<Sentinel>>]],
     pc |-> [l \in (0..(G - 1)) \X (0..(T - 1)) |-> "seed"],
     it |-> [l \in (0..(G - 1)) \X (0..(T - 1)) |-> l[1] * T + l[2]],
     result |-> [l \in (0..(G - 1)) \X (0..(T - 1)) |->
         IF o = "add" THEN Sentinel * Pow2(20) ELSE <<Sentinel>>],
     currentBlockSize |-> [l \in (0..(G - 1)) \X (0..(T - 1)) |-> 0],
     currentBlockSizeUp |-> [l \in (0..(G - 1)) \X (0..(T - 1)) |-> 0],
     readCnt |-> [i \in 0..(Max(nn, G * T) - 1) |-> 0],
     dwrites |-> {},
     swritten |-> [b \in 0..(G - 1) |-> {}],
     flag |-> [oobScratch |-> FALSE, uninitScratch |-> FALSE, unseeded |-> FALSE,
               beyondN |-> FALSE],
     nsync |-> [l \in (0..(G - 1)) \X (0..(T - 1)) |-> 0],
     rounds |-> [l \in (0..(G - 1)) \X (0..(T - 1)) |-> 0],
     iters |-> [l \in (0..(G - 1)) \X (0..(T - 1)) |-> [unroll |-> 0, drain |-> 0]],
     phase |-> [b \in 0..(G - 1) |-> [w |-> {}, r |-> {}]],
     host |-> h]

Start(r) ==
    /\ op = r.op
    /\ TBlockSize = r.TBlockSize
    /\ gridDimension = r.gridDimension
    /\ n = r.n
    /\ source = r.source
    /\ destination = r.destination
    /\ sdata = r.sdata
    /\ pc = r.pc
    /\ it = r.it
    /\ result = r.result
    /\ currentBlockSize = r.currentBlockSize
    /\ currentBlockSizeUp = r.currentBlockSizeUp
    /\ readCnt = r.readCnt
    /\ dwrites = r.dwrites
    /\ swritten = r.swritten
    /\ flag = r.flag
    /\ nsync = r.nsync
    /\ rounds = r.rounds
    /\ iters = r.iters
    /\ phase = r.phase
    /\ host = r.host

Restart(r) ==
    /\ op' = r.op
    /\ TBlockSize' = r.TBlockSize
    /\ gridDimension' = r.gridDimension
    /\ n' = r.n
    /\ source' = r.source
    /\ destination' = r.destination
    /\ sdata' = r.sdata
    /\ pc' = r.pc
    /\ it' = r.it
    /\ result' = r.result
    /\ currentBlockSize' = r.currentBlockSize
    /\ currentBlockSizeUp' = r.currentBlockSizeUp
    /\ readCnt' = r.readCnt
    /\ dwrites' = r.dwrites
    /\ swritten' = r.swritten
    /\ flag' = r.flag
    /\ nsync' = r.nsync
    /\ rounds' = r.rounds
    /\ iters' = r.iters
    /\ phase' = r.phase
    /\ host' = r.host

\* the input of the first launch, as the sequence source[0..nn-1]
Input(o, nn) == [i \in 0..(nn - 1) |-> InputAt(o, i)]

Configs ==
    {c \in [T : 1..MaxLanes, G : 1..MaxGrid, n : 0..MaxN] :
        c.T * c.G <= MaxLanes}

Init ==
    \E o \in {"add", "cat"}, c \in Configs :
        Start(Fresh(o, c.T, c.G, c.n, Input(o, c.n),
                    [pass |-> 1, n0 |-> c.n, first |-> <<>>]))

\* ------------------------------------------------------------------ Level 0
\* lines 105-108: T result; if (threadIndex < n) result = *(it++);
Seed(l) ==
    /\ pc[l] = "seed"
    /\ IF SeedGuard(l)
          THEN /\ \E g \in Outcomes(it[l]) :
                      result' = [result EXCEPT ![l] = Deref(it[l], g)]
               /\ readCnt' = CountRead(readCnt, {it[l]})
               /\ it' = [it EXCEPT ![l] = ItPlus(it[l], 1)]
          ELSE UNCHANGED <<result, readCnt, it>>
    /\ pc' = [pc EXCEPT ![l] = "loop"]
    /\ UNCHANGED <<config, destination, sdata, currentBlockSize,
                   currentBlockSizeUp, dwrites, swritten, flag, nsync, rounds,
                   iters, phase, host>>

\* lines 119-124: one iteration of the 4x unrolled loop
Unroll(l) ==
    /\ pc[l] = "loop"
    /\ ItPlus(it[l], 3) < ItEnd
    /\ \E g \in Outcomes(ItPlus(it[l], 3)) :
          result' = [result EXCEPT ![l] =
              Unrolled(result[l], Deref(it[l], g), Deref(ItPlus(it[l], 1), g),
                       Deref(ItPlus(it[l], 2), g), Deref(ItPlus(it[l], 3), g))]
    /\ readCnt' = CountRead(readCnt, {ItPlus(it[l], k) : k \in 0..3})
    /\ it' = [it EXCEPT ![l] = ItPlus(it[l], 4)]
    /\ flag' = [flag EXCEPT !.unseeded = @ \/ Tainted(result[l])]
    /\ iters' = [iters EXCEPT ![l].unroll = @ + 1]
    /\ UNCHANGED <<config, destination, sdata, pc, currentBlockSize,
                   currentBlockSizeUp, dwrites, swritten, nsync, rounds, phase,
                   host>>

\* lines 127-128: one iteration of the loop over the remaining elements
Drain(l) ==
    /\ pc[l] = "loop"
    /\ ~(ItPlus(it[l], 3) < ItEnd)
    /\ it[l] < ItEnd
    /\ \E g \in Outcomes(it[l]) :
          result' = [result EXCEPT ![l] = func(result[l], Deref(it[l], g))]
    /\ readCnt' = CountRead(readCnt, {it[l]})
    /\ it' = [it EXCEPT ![l] = ItPlus(it[l], 1)]
    /\ flag' = [flag EXCEPT !.unseeded = @ \/ Tainted(result[l])]
    /\ iters' = [iters EXCEPT ![l].drain = @ + 1]
    /\ UNCHANGED <<config, destination, sdata, pc, currentBlockSize,
                   currentBlockSizeUp, dwrites, swritten, nsync, rounds, phase,
                   host>>

\* lines 130-133: if (threadIndex < n) sdata[threadIndex] = result;
\* syncBlockThreads
Publish(l) ==
    /\ pc[l] = "loop"
    /\ ~(ItPlus(it[l], 3) < ItEnd)
    /\ ~(it[l] < ItEnd)
    /\ IF PublishGuard(l)
          THEN /\ sdata' = [sdata EXCEPT ![blockIndex(l)][threadIndex(l)] = result[l]]
               /\ swritten' = [swritten EXCEPT ![blockIndex(l)] = @ \cup {threadIndex(l)}]
               /\ flag' = [flag EXCEPT !.unseeded = @ \/ Tainted(result[l])]
               /\ phase' = [phase EXCEPT ![blockIndex(l)].w = @ \cup
                      {Access(l, threadIndex(l), "publish")}]
          ELSE UNCHANGED <<sdata, swritten, flag, phase>>
    /\ IF PublishSyncs(l)
          THEN /\ pc' = [pc EXCEPT ![l] = "sync0"]
               /\ nsync' = [nsync EXCEPT ![l] = @ + 1]
          ELSE /\ pc' = [pc EXCEPT ![l] = "done"]
               /\ UNCHANGED nsync
    /\ UNCHANGED <<config, destination, it, result, currentBlockSize,
                   currentBlockSizeUp, readCnt, dwrites, rounds, iters, host>>

\* ------------------------------------------------------------------ barrier
\* where a thread goes on after a barrier: the tree loop's init (after the
\* publish) or increment (after a round), then its test
CbsAfter(l) ==
    IF pc[l] = "sync0" THEN ForInit ELSE ForNext(currentBlockSize[l])
PcAfter(l) == IF ForTest(CbsAfter(l)) THEN "round" ELSE "emit"

\* syncBlockThreads returns in every thread of block b once all have called
Release(b) ==
    /\ b \in Blocks
    /\ \A t \in Threads : pc[<<b, t>>] \in {"sync0", "syncR"}
    /\ currentBlockSize' = [l \in Lanes |->
          IF blockIndex(l) = b THEN CbsAfter(l) ELSE currentBlockSize[l]]
    /\ currentBlockSizeUp' = [l \in Lanes |->
          IF blockIndex(l) = b THEN ForUp(CbsAfter(l)) ELSE currentBlockSizeUp[l]]
    /\ pc' = [l \in Lanes |-> IF blockIndex(l) = b THEN PcAfter(l) ELSE pc[l]]
    /\ phase' = [phase EXCEPT ![b] = [w |-> {}, r |-> {}]]
    /\ UNCHANGED <<config, destination, sdata, it, result, ghost, host>>

\* ------------------------------------------------------------------ Level 1
\* lines 148-163: one round of the tree loop
Round(l) ==
    /\ pc[l] = "round"
    /\ IF cond(l)
          THEN /\ sdata' = [sdata EXCEPT ![blockIndex(l)][threadIndex(l)] =
                      func(ScratchRead(blockIndex(l), threadIndex(l)),
                           ScratchRead(blockIndex(l),
                                       threadIndex(l) + currentBlockSizeUp[l]))]
               /\ swritten' = [swritten EXCEPT ![blockIndex(l)] = @ \cup {threadIndex(l)}]
               /\ flag' = [flag EXCEPT
                     !.oobScratch = @ \/ ScratchBad(blockIndex(l),
                         {threadIndex(l), threadIndex(l) + currentBlockSizeUp[l]}),
                     !.uninitScratch = @ \/ ScratchUninit(blockIndex(l),
                         {threadIndex(l), threadIndex(l) + currentBlockSizeUp[l]}),
                     !.beyondN = @ \/ ScratchBeyond(blockIndex(l),
                         {threadIndex(l), threadIndex(l) + currentBlockSizeUp[l]})]
               /\ phase' = [phase EXCEPT
                     ![blockIndex(l)].w = @ \cup {Access(l, threadIndex(l), "round")},
                     ![blockIndex(l)].r = @ \cup
                         {Access(l, threadIndex(l), "own"),
                          Access(l, threadIndex(l) + currentBlockSizeUp[l], "partner")}]
          ELSE UNCHANGED <<sdata, swritten, flag, phase>>
    /\ rounds' = [rounds EXCEPT ![l] = @ + 1]
    /\ IF RoundSyncs(l)
          THEN /\ pc' = [pc EXCEPT ![l] = "syncR"]
               /\ nsync' = [nsync EXCEPT ![l] = @ + 1]
               /\ UNCHANGED <<currentBlockSize, currentBlockSizeUp>>
          ELSE /\ currentBlockSize' = [currentBlockSize EXCEPT ![l] = ForNext(@)]
               /\ currentBlockSizeUp' = [currentBlockSizeUp EXCEPT ![l] =
                      ForUp(ForNext(currentBlockSize[l]))]
               /\ pc' = [pc EXCEPT ![l] =
                      IF ForTest(ForNext(currentBlockSize[l])) THEN "round" ELSE "emit"]
               /\ UNCHANGED nsync
    /\ UNCHANGED <<config, destination, it, result, readCnt, dwrites, iters,
                   host>>

\* ------------------------------------------------------------------ Level 2
\* lines 166-168: if (threadIndex == 0 && threadIndex < n)
\*                    destination[blockIndex] = sdata[0];
Emit(l) ==
    /\ pc[l] = "emit"
    /\ IF EmitGuard(l)
          THEN /\ destination' = [destination EXCEPT ![blockIndex(l)] =
                      ScratchRead(blockIndex(l), 0)]
               /\ dwrites' = dwrites \cup
                      {<<blockIndex(l), threadIndex(l), blockIndex(l),
                         Cardinality({w \in dwrites : w[3] = blockIndex(l)}) + 1>>}
               /\ flag' = [flag EXCEPT
                     !.uninitScratch = @ \/ ScratchUninit(blockIndex(l), {0})]
               /\ phase' = [phase EXCEPT ![blockIndex(l)].r = @ \cup
                      {Access(l, 0, "emit")}]
          ELSE UNCHANGED <<destination, dwrites, flag, phase>>
    /\ pc' = [pc EXCEPT ![l] = "done"]
    /\ UNCHANGED <<config, sdata, it, result, currentBlockSize,
                   currentBlockSizeUp, readCnt, swritten, nsync, rounds, iters,
                   host>>

\* ------------------------------------------------------------------ kernel
Kernel ==
    \/ \E l \in Lanes : Seed(l)
    \/ \E l \in Lanes : Unroll(l)
    \/ \E l \in Lanes : Drain(l)
    \/ \E l \in Lanes : Publish(l)
    \/ \E b \in Blocks : Release(b)
    \/ \E l \in Lanes : Round(l)
    \/ \E l \in Lanes : Emit(l)

Next == Kernel

Spec == Init /\ [][Next]_vars

AllDone == \A l \in Lanes : pc[l] = "done"

\* The launches of fewer than MaxLanes threads with func = +, under a scheduler that keeps running some
\* thread that can take a step (the control flow does not depend on func).
InitFair ==
    \E c \in Configs :
        /\ c.T * c.G < MaxLanes
        /\ Start(Fresh("add", c.T, c.G, c.n, Input("add", c.n),
                    [pass |-> 1, n0 |-> c.n, first |-> <<>>]))

FairSpec == InitFair /\ [][Next]_vars /\ WF_vars(Next)

\* ------------------------------------------------------------------ host
CeilDiv(a, b) == (a + b - 1) \div b

\* The launching side reduces the partials of a finished launch: the same
\* kernel over destination, with one block and n = the number of partials.
SecondPass ==
    /\ host.pass = 1
    /\ AllDone
    /\ Restart(Fresh(op, TBlockSize, 1, gridDimension,
                      [i \in 0..(gridDimension - 1) |-> destination[i]],
                      [host EXCEPT !.pass = 2]))

\* one block per TBlockSize-sized chunk of the input, func = +
InitCompose ==
    \E c \in [T : 1..MaxLanes, G : 1..MaxLanes, n : 1..MaxN] :
        /\ c.T * c.G <= MaxLanes
        /\ c.G = CeilDiv(c.n, c.T)
        /\ Start(Fresh("add", c.T, c.G, c.n, Input("add", c.n),
                       [pass |-> 1, n0 |-> c.n, first |-> <<>>]))

NextCompose ==
    \/ Kernel
    \/ SecondPass

SpecCompose == InitCompose /\ [][NextCompose]_vars

\* The launching side runs the same launch a second time and keeps the first
\* run's output.
Rerun ==
    /\ host.pass = 1
    /\ AllDone
    /\ Restart(Fresh(op, TBlockSize, gridDimension, n, source,
                      [host EXCEPT !.pass = 2, !.first = destination]))

\* func = concatenation
InitRepeat ==
    \E c \in Configs :
        Start(Fresh("cat", c.T, c.G, c.n, Input("cat", c.n),
                    [pass |-> 1, n0 |-> c.n, first |-> <<>>]))

NextRepeat ==
    \/ Kernel
    \/ Rerun

SpecRepeat == InitRepeat /\ [][NextRepeat]_vars

\* ------------------------------------------------------------------ helpers
RECURSIVE SumSource(_)
\* source[0] + ... + source[k-1]
SumSource(k) == IF k = 0 THEN 0 ELSE SumSource(k - 1) + source[k - 1]

RECURSIVE SumInput(_)
\* the sum of the first k elements of the first launch's input
SumInput(k) == IF k = 0 THEN 0 ELSE SumInput(k - 1) + InputAt("add", k - 1)

RECURSIVE CeilLog2From(_, _)
CeilLog2From(k, r) == IF Pow2(r) >= k THEN r ELSE CeilLog2From(k, r + 1)
\* the least r with 2^r >= k
CeilLog2(k) == CeilLog2From(k, 0)

RECURSIVE RoundsFrom(_)
\* the iterations of the tree loop's header from currentBlockSize = cbs on
RoundsFrom(cbs) == IF ForTest(cbs) THEN 1 + RoundsFrom(ForNext(cbs)) ELSE 0

Finished(l) == pc[l] \in {"emit", "done"}
AtBarrier(l) == pc[l] \in {"sync0", "syncR"}

\* ------------------------------------------------------------------ claims

\* C1: with one block and func = +, the value written to destination[0] is
\* the sum of source[0..n-1], for every TBlockSize and every n >= 1.
C1_SingleGroupSum ==
    (op = "add" /\ gridDimension = 1 /\ n >= 1 /\ AllDone)
        => destination[0] = SumSource(n)

\* C3: a block whose base offset blockIndex * TBlockSize is >= n leaves
\* destination[blockIndex] unwritten.
C3_EmissionGuard ==
    \A w \in dwrites : w[1] * TBlockSize < n

\* C4: the output is written only by thread 0 of a block, at most once, and
\* only at the block's own index; the slots not written keep what they held;
\* the input is never written.
C4_Frame ==
    /\ \A w \in dwrites : w[2] = 0 /\ w[3] = w[1] /\ w[4] = 1
    /\ \A b \in Blocks :
          (\A w \in dwrites : w[3] # b) => destination[b] = NoValue
    /\ source = Input(op, n)

C4_Witness ==
    /\ AllDone
    /\ gridDimension >= 2
    /\ TBlockSize >= 2
    /\ n >= TBlockSize * gridDimension
    /\ \A b \in Blocks : <<b, 0, b, 1>> \in dwrites

\* C5: no thread reads the input outside [0, n), and no thread reads sdata
\* outside [0, TBlockSize).
C5_NoOutOfRangeRead ==
    /\ \A i \in DOMAIN readCnt : readCnt[i] > 0 => i < n
    /\ ~flag.oobScratch

\* C6: a thread with threadIndex >= n never writes the output, no thread reads
\* a slot of sdata that was not written earlier in the launch, and the value
\* sdata held at block entry never reaches destination.
C6_IdleLaneSafety ==
    /\ \A w \in dwrites : w[2] < n /\ ~Tainted(destination[w[3]])
    /\ ~flag.uninitScratch

C6_Witness ==
    /\ AllDone
    /\ n >= 2
    /\ TBlockSize > n
    /\ dwrites # {}
    /\ \E l \in Lanes : threadIndex(l) >= n /\ rounds[l] >= 2

\* C7: the tree loop runs exactly ceil(log2(TBlockSize)) rounds in every
\* thread.
C7_RoundCount ==
    \A l \in Lanes : Finished(l) => rounds[l] = CeilLog2(TBlockSize)

\* C8: every thread of a block calls syncBlockThreads the same number of
\* times, one after the publish and one per round of the tree loop, whatever
\* n, its index and cond are; no thread of a block has left the last barrier
\* while another of the same block waits at one.
C8_BarrierUniform ==
    /\ \A l \in Lanes : Finished(l) =>
          /\ nsync[l] = 1 + rounds[l]
          /\ nsync[l] = 1 + RoundsFrom(TBlockSize)
    /\ \A l \in Lanes, m \in Lanes :
          (blockIndex(l) = blockIndex(m) /\ Finished(l)) => ~AtBarrier(m)

C8_Witness ==
    /\ AllDone
    /\ TBlockSize >= 4
    /\ n = 1
    /\ \A l \in Lanes : nsync[l] = 3

\* C2: with one block per TBlockSize-sized chunk and func = +, a second launch
\* over the partials with one block and n = the number of partials leaves the
\* sum of the input in destination[0], for every TBlockSize.
C2_Compose ==
    (host.pass = 2 /\ AllDone) => destination[0] = SumInput(host.n0)

\* C9: every thread of every block eventually finishes the kernel; the
\* iterator only moves forward, and no thread runs more rounds of the tree
\* loop than TBlockSize fixes.
C9_Termination ==
    /\ <>AllDone
    /\ [](\A l \in Lanes : rounds[l] <= RoundsFrom(TBlockSize))
    /\ [][\A l \in Lanes : it'[l] >= it[l]]_vars

C9_Witness ==
    /\ AllDone
    /\ gridDimension >= 2
    /\ TBlockSize >= 2
    /\ n > ItStride
    /\ \A l \in Lanes : rounds[l] >= 1 /\ it[l] >= n

\* C10: with func = concatenation, two runs of the same launch leave the same
\* contents in destination, whatever the order the threads and blocks ran in.
C10_Deterministic ==
    (host.pass = 2 /\ AllDone) => destination = host.first

\* C11: between two consecutive barriers of a block, no slot of sdata written
\* by one thread is read or written by another thread of the block; a thread
\* writes only its own slot, in a round only a slot below currentBlockSizeUp;
\* a thread reads another thread's slot only as
\* sdata[threadIndex + currentBlockSizeUp], a slot at or above
\* currentBlockSizeUp, which no thread writes in that round.
C11_RaceFree ==
    \A b \in Blocks :
        /\ \A w \in phase[b].w :
              /\ w.idx = w.t
              /\ w.kind = "round" => w.idx < w.up
              /\ \A a \in phase[b].w \cup phase[b].r : a.idx = w.idx => a.t = w.t
        /\ \A r \in phase[b].r :
              r.idx # r.t =>
                  /\ r.kind = "partner"
                  /\ r.idx = r.t + r.up
                  /\ r.idx >= r.up

C11_Witness ==
    \E b \in Blocks :
        /\ Cardinality({w \in phase[b].w : w.kind = "round"}) >= 2
        /\ Cardinality({r \in phase[b].r : r.kind = "partner"}) >= 2

\* how often e occurs in the sequence q
Count(q, e) == Cardinality({i \in 1..Len(q) : q[i] = e})
\* every thread of block b is past the tree loop
TreeDone(b) == \A t \in Threads : Finished(<<b, t>>)
\* the input positions thread l reads when it starts inside the input
Owned(l) == {p \in 0..(n - 1) : p % ItStride = linearizedIndex(l)}

\* C12: with func = concatenation (every value lists the input positions
\* combined into it), after the last round of the tree loop sdata[0] of a block
\* that owns input holds the partial of every thread of the block whose
\* position in the grid is < n, each exactly once, and nothing else.
C12_NoPartialDropped ==
    \A b \in Blocks :
        (op = "cat" /\ b * TBlockSize < n /\ TreeDone(b)) =>
            /\ \A t \in Threads : \A p \in Owned(<<b, t>>) :
                  Count(sdata[b][0], p) = 1
            /\ \A i \in 1..Len(sdata[b][0]) :
                  \E t \in Threads : sdata[b][0][i] \in Owned(<<b, t>>)

\* C13: with func = concatenation, one block and n <= TBlockSize (thread t
\* publishes <<t>>), the value left in sdata[0] after the tree loop is the
\* partials in increasing thread order: <<0, 1, ..., n-1>>.
C13_LeftToRight ==
    (op = "cat" /\ gridDimension = 1 /\ n >= 1 /\ n <= TBlockSize /\ TreeDone(0))
        => sdata[0][0] = [i \in 1..n |-> i - 1]

\* every thread has left Level 0 (the seed and the two loops)
Level0Done == \A l \in Lanes : pc[l] \notin {"seed", "loop"}

\* C14: every input index in [0, n) is read in Level 0 exactly once by the
\* whole grid: never twice, and once every thread has left Level 0 none is
\* left unread.
C14_Coverage ==
    /\ \A i \in 0..(n - 1) : readCnt[i] <= 1
    /\ Level0Done => \A i \in 0..(n - 1) : readCnt[i] = 1

C14_Witness ==
    /\ AllDone
    /\ gridDimension >= 2
    /\ TBlockSize >= 2
    /\ n > ItStride
    /\ n % ItStride # 0
    /\ \A i \in 0..(n - 1) : readCnt[i] = 1

\* C15: a block never has more than min(n, TBlockSize) slots of sdata written,
\* and no round of the tree loop reads a slot whose position in the grid,
\* blockIndex * TBlockSize + slot, is >= n.
C15_ScratchBounds ==
    /\ \A b \in Blocks : Cardinality(swritten[b]) <= (IF n <= TBlockSize THEN n ELSE TBlockSize)
    /\ ~flag.beyondN

C15_Witness ==
    /\ AllDone
    /\ n >= 3
    /\ n < TBlockSize
    /\ Cardinality(swritten[0]) = n
    /\ Len(sdata[0][0]) >= 2

\* C16: within a block, no thread starts the tree loop before every thread
\* has finished Level 0, no thread is more than one round ahead of another,
\* and the emission happens only after every thread has run all the rounds.
C16_LevelOrdering ==
    \A l \in Lanes : \A m \in Lanes :
        blockIndex(l) = blockIndex(m) =>
            /\ pc[l] \in {"round", "syncR", "emit", "done"}
                  => pc[m] \notin {"seed", "loop"}
            /\ rounds[l] >= 1 => pc[m] \notin {"seed", "loop", "sync0"}
            /\ rounds[l] <= rounds[m] + 1
            /\ pc[l] \in {"emit", "done"}
                  => /\ rounds[m] = RoundsFrom(TBlockSize)
                     /\ pc[m] \in {"emit", "done"}

C16_Witness ==
    /\ TBlockSize >= 4
    /\ \E l \in Lanes : \E m \in Lanes :
          /\ blockIndex(l) = blockIndex(m)
          /\ rounds[l] = 2
          /\ rounds[m] = 1
          /\ pc[m] = "round"

\* the left fold of func over source[start], source[start + ItStride], ...,
\* source[last]
RECURSIVE FoldTo(_, _)
FoldTo(start, last) ==
    IF last <= start
        THEN source[start]
        ELSE func(FoldTo(start, last - ItStride), source[last])

\* the number of elements a thread has consumed
Consumed(l) == 1 + 4 * iters[l].unroll + iters[l].drain

\* C17: for a thread whose start linearizedIndex is < n, result is at every
\* point after the seed the fold of the positions start, start + stride, ...
\* consumed so far, all of them < n; the unrolled step runs only while four
\* more positions < n remain and consumes those four, the drain loop takes
\* the remaining 0 to 3 one at a time, and Level 0 ends with every position
\* < n of the thread folded into result.
C17_Level0Accumulation ==
    \A l \in Lanes :
        (ItStart(l) < n /\ pc[l] # "seed") =>
            /\ it[l] = ItPlus(ItStart(l), Consumed(l))
            /\ it[l] - ItStride < n
            /\ result[l] = FoldTo(ItStart(l), it[l] - ItStride)
            /\ iters[l].drain <= 3
            /\ iters[l].drain > 0
                  => ~(ItPlus(ItStart(l), 4 * iters[l].unroll + 4) < n)
            /\ pc[l] # "loop" => it[l] >= n

C17_Witness ==
    \E l \in Lanes :
        /\ ItStart(l) < n
        /\ pc[l] = "done"
        /\ iters[l].unroll >= 1
        /\ iters[l].drain >= 2

\* C18: a thread with threadIndex >= n never assigns result, runs no iteration
\* of the unrolled loop or of the drain loop, never writes its sdata slot and
\* satisfies cond in no round; no unseeded result is ever passed to func or
\* stored.
C18_UnseededNeverObserved ==
    /\ ~flag.unseeded
    /\ \A l \in Lanes :
          threadIndex(l) >= n =>
              /\ result[l] = NoValue
              /\ it[l] = ItStart(l)
              /\ iters[l] = [unroll |-> 0, drain |-> 0]
              /\ threadIndex(l) \notin swritten[blockIndex(l)]
              /\ \A up \in 0..TBlockSize : ~condAt(l, up)
              /\ \A a \in phase[blockIndex(l)].w \cup phase[blockIndex(l)].r :
                    a.t # threadIndex(l)
    /\ \A b \in Blocks : \A i \in swritten[b] : ~Tainted(sdata[b][i])
    /\ \A w \in dwrites : ~Tainted(destination[w[3]])

C18_Witness ==
    /\ AllDone
    /\ n >= 2
    /\ \E l \in Lanes :
          /\ threadIndex(l) >= n
          /\ rounds[l] >= 2
          /\ result[l] = NoValue

\* C19: for every thread and every half width up, cond of lines 148-156 holds
\* exactly when the condition holds whose last conjunct is
\* blockIndex * TBlockSize + threadIndex < n instead of threadIndex < n.
C19_CondEquivalence ==
    \A l \in Lanes : \A up \in 0..TBlockSize :
        condAt(l, up) <=>
            /\ threadIndex(l) < up
            /\ threadIndex(l) + up < TBlockSize
            /\ blockIndex(l) * TBlockSize + threadIndex(l) + up < n
            /\ linearizedIndex(l) < n

C19_Witness ==
    \E l \in Lanes : \E m \in Lanes :
        /\ blockIndex(l) >= 1
        /\ pc[l] = "round"
        /\ cond(l)
        /\ pc[m] = "round"
        /\ threadIndex(m) < n
        /\ linearizedIndex(m) >= n
        /\ ~cond(m)

RECURSIVE IsPow2(_)
IsPow2(k) == k = 1 \/ (k > 1 /\ k % 2 = 0 /\ IsPow2(k \div 2))

\* the sum of the elements among source[0..k-1] that the threads of block b
\* read in Level 0
RECURSIVE OwnedSum(_, _)
OwnedSum(b, k) ==
    IF k = 0
        THEN 0
        ELSE OwnedSum(b, k - 1) +
             (IF ((k - 1) % ItStride) \div TBlockSize = b THEN source[k - 1] ELSE 0)

\* C20: with func = + and TBlockSize a power of two, every block b whose
\* base blockIndex * TBlockSize is < n writes to destination[b] the sum of
\* the elements its threads own, and a single block writes the sum of
\* source[0..n-1].
C20_PowerOfTwoSum ==
    (op = "add" /\ IsPow2(TBlockSize) /\ n >= 1) =>
        /\ \A b \in Blocks :
              (b * TBlockSize < n /\ pc[<<b, 0>>] = "done")
                  => destination[b] = OwnedSum(b, n)
        /\ (gridDimension = 1 /\ AllDone) => destination[0] = SumSource(n)

C20_Witness ==
    /\ op = "add"
    /\ AllDone
    /\ IsPow2(TBlockSize)
    /\ TBlockSize >= 2
    /\ gridDimension >= 2
    /\ gridDimension * TBlockSize >= n
    /\ (gridDimension - 1) * TBlockSize < n
    /\ n % TBlockSize # 0
    /\ \A b \in Blocks : destination[b] = OwnedSum(b, n)

====
